---- MODULE Spec2Model ----
(***************************************************************************)
(* A model of tss-esapi's Context (src/tss-esapi/src/context.rs): the      *)
(* three session slots, the scoped-execution helpers, the handle registry  *)
(* and the teardown sweep run by Drop.                                     *)
(*                                                                         *)
(* A closure handed to a scoped helper is user code that receives          *)
(* &mut Context: it is modelled as any sequence of Context operations      *)
(* performed while the helper's frame is on top of `stack`, followed by a  *)
(* return step that carries the closure's result.                          *)
(***************************************************************************)
EXTENDS Integers, Sequences, FiniteSets, TLC

\* ------------------------------------------------------------------ bounds
\* Deepest nesting of scoped helpers (closures calling helpers again).
MaxDepth == 2

\* ------------------------------------------------------------------ values
\* Option<AuthSession>: None, Some(Password), Some(HmacSession(handle)).
NoSession == <<"None">>
Password == <<"Password">>
HmacSession(h) == <<"HmacSession", h>>

\* Handles the module can hand out for a newly started session.
SessionHandles == {1, 2}
\* Object handles of the scenarios in the specification.
ObjectHandles == {7, 9, 42}
\* The object handed to execute_with_temporary_object in its scenario.
TemporaryObjects == {42}

NoSessions == <<NoSession, NoSession, NoSession>>

\* The triples callers pass to set_sessions and execute_with_sessions: the
\* slots are ordered, so the same sessions appear in different positions.
InputTriples ==
    { NoSessions,
      <<Password, NoSession, NoSession>>,
      <<NoSession, HmacSession(1), Password>> }

\* Results of closures and of the helpers: Ok(v), or Err of some kind of
\* error and what it says.
Ok(v) == <<"Ok", "T", v>>
Err(kind, what) == <<"Err", kind, what>>
IsOk(r) == r[1] = "Ok"
\* What a closure may return: a value, or its own error E.
ClosureResults == {Ok("v"), Err("E", "closure")}
\* WrapperErrorKind::WrongValueFromTpm, as a local error.
WrongValueFromTpm == Err("WrapperError", "WrongValueFromTpm")
\* The translated response code of a failed native call.
TssError(call) == Err("Tss2ResponseCode", call)

\* Handle dispositions of the registry.
Dispositions == {"Flush", "Close"}

VARIABLES
    sessions,        \* Context::sessions, the three slots
    esys_context,    \* Context::esys_context: "Some" until Drop takes it
    handle_manager,  \* Context::handle_manager: a set of <<handle, disposition>>
    stack,           \* frames of the scoped helpers whose closure is running
    calls,           \* native calls issued by the last step (by Drop: since it began)
    last,            \* outcome of the helper that returned in the last step
    pc,              \* position of Drop: "open", "flush", "close", "closed"
    todo,            \* handles the running Drop loop has still to visit
    at_drop,         \* the registry as it was when Drop began
    leak_reported,   \* Drop logged "Not all handles have had their resources ..."
    cached_tpm_properties,  \* Context::cached_tpm_properties: a set of <<tag, value>>
    ffi_data,        \* an FFI structure received from the module: its type and memory
    zeroize_run      \* the last ffi_data_zeroize: the memory before it, its reads and writes

vars == <<sessions, esys_context, handle_manager, stack, calls, last, pc, todo,
          at_drop, leak_reported, cached_tpm_properties, ffi_data, zeroize_run>>

NoLast == [op |-> "none"]
\* HashMap::new(): no tag has a value.
EmptyCache == {}
\* No FFI structure is at hand, and none has been zeroized.
NoData == [type |-> "none"]
NoRun == [type |-> "none"]

\* Context::new, lines 108-115.
Init ==
    /\ sessions = NoSessions
    /\ esys_context = "Some"
    /\ handle_manager = {}
    /\ stack = <<>>
    /\ calls = <<>>
    /\ last = NoLast
    /\ pc = "open"
    /\ todo = {}
    /\ at_drop = {}
    /\ leak_reported = FALSE
    /\ cached_tpm_properties = EmptyCache
    /\ ffi_data = NoData
    /\ zeroize_run = NoRun

Depth == Len(stack)
Top == stack[Len(stack)]
Pop == SubSeq(stack, 1, Len(stack) - 1)

\* --------------------------------------------------------- handle manager
\* The registry of open handles.  handle_manager.rs is not part of the
\* sources at hand: these operators follow section 4.1 of the specification.
Registered(reg, handle) == \E e \in reg : e[1] = handle

\* Mutation of add_handle: the entry is added without looking at the registry.
add_handle_unchecked(reg, handle, disposition) == reg \cup {<<handle, disposition>>}

\* Mutation of add_handle: a handle registered with another disposition gets
\* the new one.
add_handle_overwrites(reg, handle, disposition) ==
    {e \in reg : e[1] # handle} \cup {<<handle, disposition>>}

\* add_handle fails when the handle is registered with another disposition.
add_handle_fails(reg, handle, disposition) ==
    \E e \in reg : e[1] = handle /\ e[2] # disposition

add_handle(reg, handle, disposition) ==
    IF add_handle_fails(reg, handle, disposition)
    THEN reg
    ELSE reg \cup {<<handle, disposition>>}

\* Mutation of remove_handle: only an entry to be flushed is removed.
remove_handle_flush_only(reg, handle) ==
    {e \in reg : e[1] # handle \/ e[2] = "Close"}

remove_handle(reg, handle) == {e \in reg : e[1] # handle}

handles_to_flush(reg) == {e[1] : e \in {x \in reg : x[2] = "Flush"}}

handles_to_close(reg) == {e[1] : e \in {x \in reg : x[2] = "Close"}}

has_open_handles(reg) == reg # {}

\* ------------------------------------------------------------ native calls
\* One entry of the log of native calls.
NativeCall(name, handle, ok) == [call |-> name, handle |-> handle, ok |-> ok]

\* flush_context(handle): Esys_FlushContext, and on success the handle leaves
\* the registry.  The registry after the call:
flush_context(reg, handle, ok) == IF ok THEN remove_handle(reg, handle) ELSE reg

\* tr_close(handle): Esys_TR_Close, and on success the handle leaves the registry.
tr_close(reg, handle, ok) == IF ok THEN remove_handle(reg, handle) ELSE reg

\* start_auth_session: what the module can answer.  A started session gets a
\* handle that is not open already.
StartOutcomes(reg) ==
    {<<"Err">>, <<"None">>} \cup
    {<<"Some", h>> : h \in {x \in SessionHandles : ~Registered(reg, x)}}

\* start_auth_session registers the session it started, to be flushed.
start_auth_session(reg, out) ==
    IF out[1] = "Some" THEN add_handle(reg, out[2], "Flush") ELSE reg

\* SessionHandle::from(auth_session).into() for a session that owns a handle.
SessionHandleFrom(auth_session) == auth_session[2]

\* ------------------------------------------------------- session slots
\* Mutation of set_sessions: the first two slots change places.
set_sessions_swapped(session_handles) ==
    <<session_handles[2], session_handles[1], session_handles[3]>>

\* set_sessions: the value self.sessions takes.
set_sessions(session_handles) == session_handles

\* clear_sessions: the value self.sessions takes.
clear_sessions == <<NoSession, NoSession, NoSession>>

\* Context operations need the context alive and no teardown in progress.
Usable == pc = "open" /\ esys_context = "Some"

SetSessions ==
    /\ Usable
    /\ \E session_handles \in InputTriples :
          /\ sessions' = set_sessions(session_handles)
          /\ last' = [op |-> "set_sessions", session_handles |-> session_handles]
    /\ calls' = <<>>
    /\ UNCHANGED <<esys_context, handle_manager, stack, pc, todo, at_drop,
                   leak_reported>>
    /\ UNCHANGED <<cached_tpm_properties, ffi_data, zeroize_run>>

ClearSessions ==
    /\ Usable
    /\ sessions' = clear_sessions
    /\ calls' = <<>>
    /\ last' = [op |-> "clear_sessions"]
    /\ UNCHANGED <<esys_context, handle_manager, stack, pc, todo, at_drop,
                   leak_reported>>
    /\ UNCHANGED <<cached_tpm_properties, ffi_data, zeroize_run>>

\* sessions(), lines 228-236: the triple handed to the caller.
sessions_returned(slots) == <<slots[1], slots[2], slots[3]>>

\* sessions(): a read through `&self`; `after` is the slot mutation it
\* follows, if it follows one.
Sessions ==
    /\ Usable
    /\ last' = [op |-> "sessions", result |-> sessions_returned(sessions),
                after |-> IF last.op \in {"set_sessions", "clear_sessions"}
                          THEN last ELSE NoLast]
    /\ calls' = <<>>
    /\ UNCHANGED <<sessions, esys_context, handle_manager, stack, pc, todo,
                   at_drop, leak_reported, cached_tpm_properties, ffi_data,
                   zeroize_run>>

\* ------------------------------------------------------ scoped helpers
\* execute_with_sessions, lines 252-253: the slots the closure starts with.
execute_with_sessions_enter(session_handles) == set_sessions(session_handles)

\* Mutation of execute_with_sessions_exit: the saved triple is not put back.
execute_with_sessions_exit_no_restore(oldses, left_by_f) == left_by_f

\* execute_with_sessions, line 257: the slots after the closure returned,
\* given the saved triple and the slots the closure left behind.
execute_with_sessions_exit(oldses, left_by_f) == set_sessions(oldses)

\* execute_with_sessions up to the invocation of f.
ExecuteWithSessionsCall ==
    /\ Usable
    /\ Depth < MaxDepth
    /\ \E session_handles \in InputTriples :
          LET oldses == sessions IN
          /\ sessions' = execute_with_sessions_enter(session_handles)
          /\ stack' = Append(stack,
                 [op |-> "execute_with_sessions", oldses |-> oldses,
                  entry |-> sessions, inner |-> session_handles])
    /\ calls' = <<>>
    /\ last' = NoLast
    /\ UNCHANGED <<esys_context, handle_manager, pc, todo, at_drop, leak_reported>>
    /\ UNCHANGED <<cached_tpm_properties, ffi_data, zeroize_run>>

\* f returns res; execute_with_sessions restores the slots and returns res.
ExecuteWithSessionsReturn ==
    /\ Depth > 0
    /\ Top.op = "execute_with_sessions"
    /\ \E res \in ClosureResults :
          /\ sessions' = execute_with_sessions_exit(Top.oldses, sessions)
          /\ last' = [op |-> "execute_with_sessions", entry |-> Top.entry,
                      inner |-> Top.inner, exit |-> sessions, fres |-> res,
                      result |-> res]
    /\ stack' = Pop
    /\ calls' = <<>>
    /\ UNCHANGED <<esys_context, handle_manager, pc, todo, at_drop, leak_reported>>
    /\ UNCHANGED <<cached_tpm_properties, ffi_data, zeroize_run>>

\* Mutation of execute_with_temporary_object_cleanup: f's error returns early
\* (let v = f(self, object)?), so the flush is skipped when f failed.
execute_with_temporary_object_cleanup_skipped_on_error(object, res, flush_ok) ==
    IF IsOk(res) THEN <<NativeCall("Esys_FlushContext", object, flush_ok)>> ELSE <<>>

\* execute_with_temporary_object, line 325: the native calls made once f has
\* returned res.
execute_with_temporary_object_cleanup(object, res, flush_ok) ==
    <<NativeCall("Esys_FlushContext", object, flush_ok)>>

\* Mutation of execute_with_temporary_object_result: f's error wins over the
\* flush error.
execute_with_temporary_object_result_body_first(res, flush_ok) ==
    IF ~IsOk(res) \/ flush_ok THEN res ELSE TssError("Esys_FlushContext")

\* execute_with_temporary_object, lines 325-327: what the helper returns.
execute_with_temporary_object_result(res, flush_ok) ==
    IF flush_ok THEN res ELSE TssError("Esys_FlushContext")

\* execute_with_temporary_object up to the invocation of f (line 323).
ExecuteWithTemporaryObjectCall ==
    /\ Usable
    /\ Depth < MaxDepth
    /\ \E object \in TemporaryObjects :
          stack' = Append(stack,
              [op |-> "execute_with_temporary_object", handle |-> object,
               entry |-> sessions])
    /\ calls' = <<>>
    /\ last' = NoLast
    /\ UNCHANGED <<sessions, esys_context, handle_manager, pc, todo, at_drop,
                   leak_reported>>
    /\ UNCHANGED <<cached_tpm_properties, ffi_data, zeroize_run>>

\* f returns res; the helper flushes the object and returns.
ExecuteWithTemporaryObjectReturn ==
    /\ Depth > 0
    /\ Top.op = "execute_with_temporary_object"
    /\ \E res \in ClosureResults, flush_ok \in BOOLEAN :
          LET cleanup == execute_with_temporary_object_cleanup(Top.handle, res, flush_ok)
              flushed == \E i \in 1..Len(cleanup) :
                            cleanup[i].call = "Esys_FlushContext" /\ cleanup[i].ok
          IN
          /\ calls' = cleanup
          /\ handle_manager' = flush_context(handle_manager, Top.handle, flushed)
          /\ last' = [op |-> "execute_with_temporary_object",
                      handle |-> Top.handle, entry |-> Top.entry,
                      exit |-> sessions, fres |-> res, flush_ok |-> flush_ok,
                      result |-> execute_with_temporary_object_result(res, flush_ok)]
    /\ stack' = Pop
    /\ UNCHANGED <<sessions, esys_context, pc, todo, at_drop, leak_reported>>
    /\ UNCHANGED <<cached_tpm_properties, ffi_data, zeroize_run>>

\* execute_with_nullauth_session, lines 304-308: the attributes are set on
\* the session just started; a failure returns at once.
StartCall(out) == [call |-> "Esys_StartAuthSession", out |-> out, ok |-> out[1] # "Err"]

\* execute_with_nullauth_session, lines 292-308: the native calls made before
\* f would be invoked, given what the module answers.
execute_with_nullauth_session_setup(out, attr_ok) ==
    IF out[1] = "Some"
    THEN <<StartCall(out),
           NativeCall("Esys_TRSess_SetAttributes", out[2], attr_ok)>>
    ELSE <<StartCall(out)>>

\* Mutation of execute_with_nullauth_session_early: a start that yields no
\* session is reported as a failed start.
execute_with_nullauth_session_early_none_as_error(out, attr_ok) ==
    CASE out[1] \in {"Err", "None"} -> TssError("Esys_StartAuthSession")
      [] ~attr_ok                    -> TssError("Esys_TRSess_SetAttributes")
      [] OTHER                       -> <<"Invoke">>

\* execute_with_nullauth_session, lines 292-308: the error the helper returns
\* without invoking f, or "Invoke" when f is to be invoked.
execute_with_nullauth_session_early(out, attr_ok) ==
    CASE out[1] = "Err"  -> TssError("Esys_StartAuthSession")
      [] out[1] = "None" -> WrongValueFromTpm
      [] ~attr_ok        -> TssError("Esys_TRSess_SetAttributes")
      [] OTHER           -> <<"Invoke">>

\* execute_with_nullauth_session, line 312: the native calls made once f has
\* returned res.
execute_with_nullauth_session_cleanup(auth_session, res, flush_ok) ==
    <<NativeCall("Esys_FlushContext", SessionHandleFrom(auth_session), flush_ok)>>

\* Mutation of execute_with_nullauth_session_result: a failed flush is only
\* logged and f's result is returned.
execute_with_nullauth_session_result_flush_ignored(res, flush_ok) == res

\* execute_with_nullauth_session, lines 312-314: what the helper returns.
execute_with_nullauth_session_result(res, flush_ok) ==
    IF flush_ok THEN res ELSE TssError("Esys_FlushContext")

\* Mutation of execute_with_session: the session lands in the second slot.
execute_with_session_second_slot(session_handle) ==
    <<NoSession, session_handle, NoSession>>

\* execute_with_session, line 268: one session, the other slots None.
execute_with_session(session_handle) == <<session_handle, NoSession, NoSession>>

\* execute_with_nullauth_session up to the invocation of f, or to its early
\* return when no session could be set up.
ExecuteWithNullauthSessionCall ==
    /\ Usable
    /\ \E out \in StartOutcomes(handle_manager), attr_ok \in BOOLEAN :
          LET setup == execute_with_nullauth_session_setup(out, attr_ok)
              early == execute_with_nullauth_session_early(out, attr_ok)
          IN
          /\ out[1] # "Some" => attr_ok
          /\ calls' = setup
          /\ handle_manager' = start_auth_session(handle_manager, out)
          /\ IF early = <<"Invoke">>
             THEN LET auth_session == HmacSession(out[2])
                      inner == execute_with_session(auth_session)
                  IN
                  /\ Depth < MaxDepth
                  /\ sessions' = execute_with_sessions_enter(inner)
                  /\ stack' = Append(stack,
                         [op |-> "execute_with_nullauth_session",
                          auth_session |-> auth_session, oldses |-> sessions,
                          entry |-> sessions, inner |-> inner])
                  /\ last' = NoLast
             ELSE /\ last' = [op |-> "execute_with_nullauth_session",
                              invoked |-> FALSE, out |-> out, entry |-> sessions,
                              result |-> early]
                  /\ UNCHANGED <<sessions, stack>>
    /\ UNCHANGED <<esys_context, pc, todo, at_drop, leak_reported>>
    /\ UNCHANGED <<cached_tpm_properties, ffi_data, zeroize_run>>

\* f returns res; execute_with_session restores the slots, the helper
\* flushes the session and returns.
ExecuteWithNullauthSessionReturn ==
    /\ Depth > 0
    /\ Top.op = "execute_with_nullauth_session"
    /\ \E res \in ClosureResults, flush_ok \in BOOLEAN :
          LET cleanup == execute_with_nullauth_session_cleanup(Top.auth_session, res, flush_ok)
              flushed == \E i \in 1..Len(cleanup) :
                            cleanup[i].call = "Esys_FlushContext" /\ cleanup[i].ok
          IN
          /\ sessions' = execute_with_sessions_exit(Top.oldses, sessions)
          /\ calls' = cleanup
          /\ handle_manager' =
                flush_context(handle_manager, SessionHandleFrom(Top.auth_session), flushed)
          /\ last' = [op |-> "execute_with_nullauth_session", invoked |-> TRUE,
                      auth_session |-> Top.auth_session, entry |-> Top.entry,
                      inner |-> Top.inner, exit |-> sessions, fres |-> res,
                      flush_ok |-> flush_ok,
                      result |-> execute_with_nullauth_session_result(res, flush_ok)]
    /\ stack' = Pop
    /\ UNCHANGED <<esys_context, pc, todo, at_drop, leak_reported>>
    /\ UNCHANGED <<cached_tpm_properties, ffi_data, zeroize_run>>

\* The session slots and the scoped helpers.
NextScoped ==
    \/ SetSessions
    \/ ClearSessions
    \/ ExecuteWithSessionsCall
    \/ ExecuteWithSessionsReturn
    \/ ExecuteWithTemporaryObjectCall
    \/ ExecuteWithTemporaryObjectReturn
    \/ ExecuteWithNullauthSessionCall
    \/ ExecuteWithNullauthSessionReturn

SpecScoped == Init /\ [][NextScoped]_vars

\* ------------------------------------------------------- registry traffic
\* A command wrapper that created a handle registers it (section 4.1).
AddHandle ==
    /\ Usable
    /\ stack = <<>>
    /\ \E handle \in ObjectHandles, disposition \in Dispositions :
          /\ handle_manager' = add_handle(handle_manager, handle, disposition)
          /\ last' = [op |-> "add_handle", handle |-> handle,
                      disposition |-> disposition, before |-> handle_manager,
                      result |-> IF add_handle_fails(handle_manager, handle, disposition)
                                 THEN Err("WrapperError", "add_handle") ELSE Ok("unit")]
    /\ calls' = <<>>
    /\ UNCHANGED <<sessions, esys_context, stack, pc, todo, at_drop, leak_reported>>
    /\ UNCHANGED <<cached_tpm_properties, ffi_data, zeroize_run>>

\* A release path deregisters a handle (section 4.1).
RemoveHandle ==
    /\ Usable
    /\ stack = <<>>
    /\ \E handle \in ObjectHandles :
          /\ handle_manager' = remove_handle(handle_manager, handle)
          /\ last' = [op |-> "remove_handle", handle |-> handle,
                      before |-> handle_manager, result |-> Ok("unit")]
    /\ calls' = <<>>
    /\ UNCHANGED <<sessions, esys_context, stack, pc, todo, at_drop, leak_reported>>
    /\ UNCHANGED <<cached_tpm_properties, ffi_data, zeroize_run>>

\* An explicit flush_context(handle) by the caller.
FlushContext ==
    /\ Usable
    /\ stack = <<>>
    /\ \E handle \in ObjectHandles, ok \in BOOLEAN :
          /\ calls' = <<NativeCall("Esys_FlushContext", handle, ok)>>
          /\ handle_manager' = flush_context(handle_manager, handle, ok)
          /\ last' = [op |-> "flush_context", handle |-> handle,
                      before |-> handle_manager,
                      result |-> IF ok THEN Ok("unit") ELSE TssError("Esys_FlushContext")]
    /\ UNCHANGED <<sessions, esys_context, stack, pc, todo, at_drop, leak_reported>>
    /\ UNCHANGED <<cached_tpm_properties, ffi_data, zeroize_run>>

\* An explicit tr_close(handle) by the caller.
TrClose ==
    /\ Usable
    /\ stack = <<>>
    /\ \E handle \in ObjectHandles, ok \in BOOLEAN :
          /\ calls' = <<NativeCall("Esys_TR_Close", handle, ok)>>
          /\ handle_manager' = tr_close(handle_manager, handle, ok)
          /\ last' = [op |-> "tr_close", handle |-> handle,
                      before |-> handle_manager,
                      result |-> IF ok THEN Ok("unit") ELSE TssError("Esys_TR_Close")]
    /\ UNCHANGED <<sessions, esys_context, stack, pc, todo, at_drop, leak_reported>>
    /\ UNCHANGED <<cached_tpm_properties, ffi_data, zeroize_run>>

\* ---------------------------------------------------------------- teardown
\* Mutation of drop_loop_rest: the loop is left at the first failed call.
drop_loop_rest_fail_fast(rest, handle, ok) == IF ok THEN rest \ {handle} ELSE {}

\* Drop, lines 457-462 and 465-470: the handles a release loop has still to
\* visit after the call for `handle` ended ok or in an error (which is logged).
drop_loop_rest(rest, handle, ok) == rest \ {handle}

\* Mutation of drop_leak_diagnostic: the test is inverted.
drop_leak_diagnostic_inverted(reg) == ~has_open_handles(reg)

\* Drop, lines 473-475: whether the leak diagnostic is logged.
drop_leak_diagnostic(reg) == has_open_handles(reg)

\* Mutation of drop_finalize: the channel is kept when handles are left open.
drop_finalize_unless_leak(reg) ==
    IF has_open_handles(reg) THEN <<>> ELSE <<[call |-> "Esys_Finalize", ok |-> TRUE]>>

\* Drop, lines 478-486: the release of the channel, after the sweep left reg.
drop_finalize(reg) == <<[call |-> "Esys_Finalize", ok |-> TRUE]>>

\* Drop, lines 480-483: esys_context after take().
drop_take(context) == "None"

\* Mutation of drop_sweep_context: the channel is taken before the sweep.
drop_sweep_context_taken(context) == "None"

\* Drop, lines 453-476: nothing before line 478 touches esys_context.
drop_sweep_context(context) == context

\* Drop begins (line 453): the context is no longer borrowed by any closure.
\* Line 457 takes the list of the handles to flush.
DropBegin ==
    /\ pc = "open"
    /\ stack = <<>>
    /\ pc' = "flush"
    /\ todo' = handles_to_flush(handle_manager)
    /\ at_drop' = handle_manager
    /\ calls' = <<>>
    /\ last' = NoLast
    /\ esys_context' = drop_sweep_context(esys_context)
    /\ UNCHANGED <<sessions, handle_manager, stack, leak_reported>>
    /\ UNCHANGED <<cached_tpm_properties, ffi_data, zeroize_run>>

\* Lines 457-462: one turn of the flush loop.
DropFlush ==
    /\ pc = "flush"
    /\ \E handle \in todo, ok \in BOOLEAN :
          /\ calls' = Append(calls, NativeCall("Esys_FlushContext", handle, ok))
          /\ handle_manager' = flush_context(handle_manager, handle, ok)
          /\ todo' = drop_loop_rest(todo, handle, ok)
    /\ UNCHANGED <<sessions, esys_context, stack, last, pc, at_drop, leak_reported>>
    /\ UNCHANGED <<cached_tpm_properties, ffi_data, zeroize_run>>

\* Line 465: the flush loop is over; the list of the handles to close is taken.
DropFlushDone ==
    /\ pc = "flush"
    /\ todo = {}
    /\ pc' = "close"
    /\ todo' = handles_to_close(handle_manager)
    /\ UNCHANGED <<sessions, esys_context, handle_manager, stack, calls, last,
                   at_drop, leak_reported>>
    /\ UNCHANGED <<cached_tpm_properties, ffi_data, zeroize_run>>

\* Lines 465-470: one turn of the close loop.
DropClose ==
    /\ pc = "close"
    /\ \E handle \in todo, ok \in BOOLEAN :
          /\ calls' = Append(calls, NativeCall("Esys_TR_Close", handle, ok))
          /\ handle_manager' = tr_close(handle_manager, handle, ok)
          /\ todo' = drop_loop_rest(todo, handle, ok)
    /\ UNCHANGED <<sessions, esys_context, stack, last, pc, at_drop, leak_reported>>
    /\ UNCHANGED <<cached_tpm_properties, ffi_data, zeroize_run>>

\* Lines 472-487: the leak check and the release of the channel.
DropFinalize ==
    /\ pc = "close"
    /\ todo = {}
    /\ leak_reported' = drop_leak_diagnostic(handle_manager)
    /\ calls' = calls \o drop_finalize(handle_manager)
    /\ esys_context' = drop_take(esys_context)
    /\ pc' = "closed"
    /\ UNCHANGED <<sessions, handle_manager, stack, last, todo, at_drop>>
    /\ UNCHANGED <<cached_tpm_properties, ffi_data, zeroize_run>>

\* The teardown states of section 4.4.
State ==
    CASE pc = "open" -> "Open"
      [] pc \in {"flush", "close"} -> "TearingDown"
      [] OTHER -> "Closed"

\* The handle registry and the teardown of the context.
NextTeardown ==
    \/ AddHandle
    \/ RemoveHandle
    \/ FlushContext
    \/ TrClose
    \/ DropBegin
    \/ DropFlush
    \/ DropFlushDone
    \/ DropClose
    \/ DropFinalize

SpecTeardown == Init /\ [][NextTeardown]_vars

\* ---------------------------------------------------------- property cache
\* Property tags, in the order of their numbers, and the values the module
\* may report for them.
PropertyTags == {1, 2, 3}
PropertyValues == {"a", "b"}

\* get_tpm_property, line 364: the number of entries asked for.
PropertyCount == 4

\* Option<u32> results of get_tpm_property.
OkSome(val) == <<"Ok", "Some", val>>
OkNone == <<"Ok", "None", "none">>

\* The tagged properties of a capability response as a list in tag order.
RECURSIVE TaggedProperties(_)
TaggedProperties(pairs) ==
    IF pairs = {} THEN <<>>
    ELSE LET first == CHOOSE e \in pairs : \A o \in pairs : e[1] <= o[1]
         IN <<first>> \o TaggedProperties(pairs \ {first})

\* What the module may answer to get_capability(TpmProperties, property, 4):
\* an error, capability data of another kind, or at most four properties
\* with tags from `property` on, each with the value it has at that time.
CapabilityResponses(property) ==
    {[kind |-> "Err"], [kind |-> "Other"]} \cup
    {[kind |-> "TpmProperties", props |-> TaggedProperties(pairs)] :
        pairs \in {ps \in SUBSET ({t \in PropertyTags : t >= property} \X PropertyValues) :
                     /\ Cardinality(ps) <= PropertyCount
                     /\ \A e1 \in ps, e2 \in ps : e1[1] = e2[1] => e1 = e2}}

\* HashMap::get: the values the cache holds for a tag (none or one).
cache_get(cache, property) == {e[2] : e \in {x \in cache : x[1] = property}}

\* HashMap::insert, lines 374-376: the entry of the tag is replaced.
cache_insert(cache, tag, value) ==
    {e \in cache : e[1] # tag} \cup {<<tag, value>>}

\* Mutation of cache_fill: only the first returned property is inserted.
cache_fill_first_only(cache, props) ==
    IF props = <<>> THEN cache
    ELSE cache_insert(cache, props[1][1], props[1][2])

\* get_tpm_property, lines 372-377: every returned property is inserted.
RECURSIVE cache_fill(_, _)
cache_fill(cache, props) ==
    IF props = <<>> THEN cache
    ELSE cache_fill(cache_insert(cache, props[1][1], props[1][2]), Tail(props))

\* Mutation of get_tpm_property_hit: the cache is never consulted.
get_tpm_property_hit_never(cache, property) == FALSE

\* get_tpm_property, lines 359-361: whether the cache answers.
get_tpm_property_hit(cache, property) == cache_get(cache, property) # {}

\* Mutation of execute_without_session: the first slot holds the password
\* session.
execute_without_session_password == <<Password, NoSession, NoSession>>

\* execute_without_session, line 277: the slots during the closure.
execute_without_session == <<NoSession, NoSession, NoSession>>

\* get_tpm_property, lines 363-365: the capability queries issued.
get_tpm_property_queries(cache, property, response) ==
    IF get_tpm_property_hit(cache, property) THEN <<>>
    ELSE <<[call |-> "Esys_GetCapability", capability |-> "TpmProperties",
            property |-> property, property_count |-> PropertyCount,
            sessions |-> execute_with_sessions_enter(execute_without_session),
            ok |-> response.kind # "Err"]>>

\* get_tpm_property, lines 359-377: the cache after the call.
get_tpm_property_cache(cache, property, response) ==
    IF get_tpm_property_hit(cache, property) \/ response.kind # "TpmProperties"
    THEN cache
    ELSE cache_fill(cache, response.props)

\* Mutation of get_tpm_property_result: a response of another kind counts as
\* "no value".
get_tpm_property_result_other_as_none(cache, property, response) ==
    IF get_tpm_property_hit(cache, property)
    THEN OkSome(CHOOSE val \in cache_get(cache, property) : TRUE)
    ELSE CASE response.kind = "Err" -> TssError("Esys_GetCapability")
           [] response.kind = "Other" -> OkNone
           [] OTHER ->
                LET filled == cache_fill(cache, response.props) IN
                IF cache_get(filled, property) # {}
                THEN OkSome(CHOOSE val \in cache_get(filled, property) : TRUE)
                ELSE OkNone

\* get_tpm_property, lines 359-382: what the call returns.
get_tpm_property_result(cache, property, response) ==
    IF get_tpm_property_hit(cache, property)
    THEN OkSome(CHOOSE val \in cache_get(cache, property) : TRUE)
    ELSE CASE response.kind = "Err" -> TssError("Esys_GetCapability")
           [] response.kind = "Other" -> WrongValueFromTpm
           [] OTHER ->
                LET filled == cache_fill(cache, response.props) IN
                IF cache_get(filled, property) # {}
                THEN OkSome(CHOOSE val \in cache_get(filled, property) : TRUE)
                ELSE OkNone

\* get_tpm_property(property), with the module's answer to the query it may
\* issue.  The query runs inside execute_without_session, which puts the
\* caller's slots back.
GetTpmProperty ==
    /\ Usable
    /\ \E property \in PropertyTags :
       \E response \in CapabilityResponses(property) :
          LET hit == get_tpm_property_hit(cached_tpm_properties, property)
              queries == get_tpm_property_queries(cached_tpm_properties, property, response)
          IN
          /\ hit => response.kind = "Err"
          /\ calls' = queries
          /\ cached_tpm_properties' =
                get_tpm_property_cache(cached_tpm_properties, property, response)
          /\ sessions' =
                IF queries = <<>> THEN sessions
                ELSE execute_with_sessions_exit(sessions, queries[1].sessions)
          /\ last' = [op |-> "get_tpm_property", property |-> property,
                      before |-> cached_tpm_properties,
                      response |-> IF queries = <<>> THEN [kind |-> "NotAsked"]
                                   ELSE response,
                      entry |-> sessions,
                      result |-> get_tpm_property_result(cached_tpm_properties,
                                                         property, response),
                      prev |-> IF last.op = "get_tpm_property"
                               THEN [op |-> last.op, property |-> last.property,
                                     result |-> last.result, queries |-> Len(calls)]
                               ELSE NoLast]
    /\ UNCHANGED <<esys_context, handle_manager, stack, pc, todo, at_drop,
                   leak_reported, ffi_data, zeroize_run>>

\* ------------------------------------------------------- session resolution
\* The handles the native interface reserves for "no session" and for the
\* password session.
ESYS_TR_NONE == 4095
ESYS_TR_PASSWORD == 255

\* SessionHandle::from(Option<AuthSession>).into(): the native handle of a slot.
SessionHandleOfSlot(slot) ==
    CASE slot = NoSession -> ESYS_TR_NONE
      [] slot = Password -> ESYS_TR_PASSWORD
      [] OTHER -> slot[2]

Resolved(handle) == [ok |-> TRUE, handle |-> handle, err |-> "none"]
MissingAuthSession == [ok |-> FALSE, handle |-> 0, err |-> "MissingAuthSession"]

\* optional_session_1/2/3, lines 399-413.
optional_session(slots, n) == Resolved(SessionHandleOfSlot(slots[n]))

\* Mutation of required_session: an empty slot resolves like an optional one.
required_session_lenient(slots, n) == Resolved(SessionHandleOfSlot(slots[n]))

\* required_session_1/2, lines 418-439.
required_session(slots, n) ==
    IF slots[n] = NoSession THEN MissingAuthSession
    ELSE Resolved(SessionHandleOfSlot(slots[n]))

\* One of the five private resolution methods, called on `&self` before the
\* native call it prepares.
ResolveSession ==
    /\ Usable
    /\ \E mode \in {"optional", "required"} :
       \E n \in IF mode = "optional" THEN 1..3 ELSE 1..2 :
          last' = [op |-> "resolve_session", mode |-> mode, slot |-> n,
                   entry |-> sessions,
                   result |-> IF mode = "optional"
                              THEN optional_session(sessions, n)
                              ELSE required_session(sessions, n)]
    /\ calls' = <<>>
    /\ UNCHANGED <<sessions, esys_context, handle_manager, stack, pc, todo,
                   at_drop, leak_reported, cached_tpm_properties, ffi_data,
                   zeroize_run>>

NextCache ==
    \/ SetSessions
    \/ ClearSessions
    \/ Sessions
    \/ GetTpmProperty
    \/ ResolveSession

SpecCache == Init /\ [][NextCache]_vars

\* ------------------------------------------------------------ zeroization
\* A structure is a run of memory cells, one per scalar field or buffer
\* byte, addressed from 1.  The variants of a union start at the same cell.

\* Length of the byte buffers of the TPM2B types.
BufferLen == 1

\* The algorithm identifiers the discriminants are decoded from.
AlgId ==
    [Rsa |-> 1, Tdes |-> 3, Hmac |-> 5, Aes |-> 6, Mgf1 |-> 7, KeyedHash |-> 8,
     Xor |-> 10, Null |-> 16, Sm4 |-> 19, RsaSsa |-> 20, RsaEs |-> 21,
     RsaPss |-> 22, Oaep |-> 23, EcDsa |-> 24, EcDh |-> 25, EcDaa |-> 26,
     Sm2 |-> 27, EcSchnorr |-> 28, EcMqv |-> 29, Kdf1Sp800_56a |-> 32,
     Kdf2 |-> 33, Kdf1Sp800_108 |-> 34, Ecc |-> 35, SymCipher |-> 37,
     Camellia |-> 38]

\* The variants each try_from accepts: the arms of the exhaustive matches.
SymmetricObject ==
    {AlgId.Aes, AlgId.Sm4, AlgId.Camellia, AlgId.Null, AlgId.Tdes}
PublicAlgorithm ==
    {AlgId.Rsa, AlgId.KeyedHash, AlgId.Ecc, AlgId.SymCipher}
KeyedHashSchemeAlgorithm == {AlgId.Xor, AlgId.Hmac, AlgId.Null}
RsaSchemeAlgorithm ==
    {AlgId.RsaSsa, AlgId.RsaEs, AlgId.RsaPss, AlgId.Oaep, AlgId.Null}
EccSchemeAlgorithm ==
    {AlgId.EcDsa, AlgId.EcDh, AlgId.EcDaa, AlgId.Sm2, AlgId.EcSchnorr,
     AlgId.EcMqv, AlgId.Null}
KeyDerivationFunction ==
    {AlgId.Kdf1Sp800_56a, AlgId.Kdf2, AlgId.Kdf1Sp800_108, AlgId.Mgf1,
     AlgId.Null}

\* Field offsets and sizes, in cells.
TPMS_SCHEME_HASH == [hashAlg |-> 0, sizeof |-> 1]
TPMS_SCHEME_XOR == [hashAlg |-> 0, kdf |-> 1, sizeof |-> 2]
TPMS_SCHEME_ECDAA == [hashAlg |-> 0, count |-> 1, sizeof |-> 2]
TPMT_KEYEDHASH_SCHEME == [scheme |-> 0, details |-> 1, sizeof |-> 3]
TPMT_RSA_SCHEME == [scheme |-> 0, details |-> 1, sizeof |-> 3]
TPMT_ECC_SCHEME == [scheme |-> 0, details |-> 1, sizeof |-> 3]
TPMT_KDF_SCHEME == [scheme |-> 0, details |-> 1, sizeof |-> 2]
TPMT_SYM_DEF_OBJECT == [algorithm |-> 0, keyBits |-> 1, mode |-> 2, sizeof |-> 3]
TPMS_KEYEDHASH_PARMS == [scheme |-> 0, sizeof |-> 3]
TPMS_SYMCIPHER_PARMS == [sym |-> 0, sizeof |-> 3]
TPMS_RSA_PARMS ==
    [symmetric |-> 0, scheme |-> 3, keyBits |-> 6, exponent |-> 7, sizeof |-> 8]
TPMS_ECC_PARMS ==
    [symmetric |-> 0, scheme |-> 3, curveID |-> 6, kdf |-> 7, sizeof |-> 9]
TPM2B == [size |-> 0, buffer |-> 1, sizeof |-> 1 + BufferLen]
TPMS_ECC_POINT == [x |-> 0, y |-> TPM2B.sizeof, sizeof |-> 2 * TPM2B.sizeof]
TPMT_PUBLIC ==
    [type_ |-> 0, nameAlg |-> 1, objectAttributes |-> 2, authPolicy |-> 3,
     parameters |-> 3 + TPM2B.sizeof,
     unique |-> 3 + TPM2B.sizeof + TPMS_ECC_PARMS.sizeof,
     sizeof |-> 3 + TPM2B.sizeof + TPMS_ECC_PARMS.sizeof + TPMS_ECC_POINT.sizeof]

\* A traversal in progress: the memory and the reads and writes so far.
Zeroize(st, at) ==
    [mem |-> [st.mem EXCEPT ![at] = 0],
     log |-> Append(st.log, [ev |-> "write", at |-> at, sizeof |-> 1, value |-> 0])]

\* try_from(self.<discriminant>): the discriminant of the structure of
\* `sizeof` cells at `at` is read as it is at that moment.
TryFrom(st, at, sizeof) ==
    [mem |-> st.mem,
     log |-> Append(st.log, [ev |-> "decode", at |-> at, sizeof |-> sizeof,
                             value |-> st.mem[at]])]

\* <[u8; N]>::zeroize: every byte of the array.
RECURSIVE ZeroizeArray(_, _, _)
ZeroizeArray(st, at, len) ==
    IF len = 0 THEN st ELSE ZeroizeArray(Zeroize(st, at), at + 1, len - 1)

\* Mutation of TPM2B_ffi_data_zeroize: only the bytes in use are zeroed.
TPM2B_ffi_data_zeroize_logical_length(st, at) ==
    LET size == st.mem[at + TPM2B.size] IN
    ZeroizeArray(Zeroize(st, at + TPM2B.size), at + TPM2B.buffer,
                 IF size < BufferLen THEN size ELSE BufferLen)

\* Lines 50-58, named-field buffer types: size, then the buffer.
TPM2B_ffi_data_zeroize(st, at) ==
    ZeroizeArray(Zeroize(st, at + TPM2B.size), at + TPM2B.buffer, BufferLen)

\* Line 148.
TPMS_SCHEME_HASH_ffi_data_zeroize(st, at) ==
    Zeroize(st, at + TPMS_SCHEME_HASH.hashAlg)

\* Line 149.
TPMS_SCHEME_XOR_ffi_data_zeroize(st, at) ==
    Zeroize(Zeroize(st, at + TPMS_SCHEME_XOR.hashAlg), at + TPMS_SCHEME_XOR.kdf)

\* Mutation of TPMS_SCHEME_ECDAA_ffi_data_zeroize: count is left out.
TPMS_SCHEME_ECDAA_ffi_data_zeroize_hash_only(st, at) ==
    Zeroize(st, at + TPMS_SCHEME_ECDAA.hashAlg)

\* Line 150.
TPMS_SCHEME_ECDAA_ffi_data_zeroize(st, at) ==
    Zeroize(Zeroize(st, at + TPMS_SCHEME_ECDAA.hashAlg),
            at + TPMS_SCHEME_ECDAA.count)

\* Lines 188-221.
TPMT_SYM_DEF_OBJECT_ffi_data_zeroize(st, at) ==
    LET read == TryFrom(st, at + TPMT_SYM_DEF_OBJECT.algorithm,
                        TPMT_SYM_DEF_OBJECT.sizeof)
        algorithm == st.mem[at + TPMT_SYM_DEF_OBJECT.algorithm]
        matched ==
            IF algorithm \in SymmetricObject
                  /\ algorithm \in {AlgId.Aes, AlgId.Sm4, AlgId.Camellia}
            THEN Zeroize(Zeroize(read, at + TPMT_SYM_DEF_OBJECT.keyBits),
                         at + TPMT_SYM_DEF_OBJECT.mode)
            ELSE read
    IN Zeroize(matched, at + TPMT_SYM_DEF_OBJECT.algorithm)

\* Mutation of TPMT_KEYEDHASH_SCHEME_ffi_data_zeroize: every scheme but Null
\* and Xor, known or not, is handled by the Hmac arm.
TPMT_KEYEDHASH_SCHEME_ffi_data_zeroize_wildcard_arm(st, at) ==
    LET read == TryFrom(st, at + TPMT_KEYEDHASH_SCHEME.scheme,
                        TPMT_KEYEDHASH_SCHEME.sizeof)
        scheme == st.mem[at + TPMT_KEYEDHASH_SCHEME.scheme]
        details == at + TPMT_KEYEDHASH_SCHEME.details
        matched ==
            CASE scheme = AlgId.Xor ->
                    TPMS_SCHEME_XOR_ffi_data_zeroize(read, details)
              [] scheme = AlgId.Null -> read
              [] OTHER -> TPMS_SCHEME_HASH_ffi_data_zeroize(read, details)
    IN Zeroize(matched, at + TPMT_KEYEDHASH_SCHEME.scheme)

\* Lines 278-293.
TPMT_KEYEDHASH_SCHEME_ffi_data_zeroize(st, at) ==
    LET read == TryFrom(st, at + TPMT_KEYEDHASH_SCHEME.scheme,
                        TPMT_KEYEDHASH_SCHEME.sizeof)
        scheme == st.mem[at + TPMT_KEYEDHASH_SCHEME.scheme]
        details == at + TPMT_KEYEDHASH_SCHEME.details
        matched ==
            IF scheme \notin KeyedHashSchemeAlgorithm THEN read
            ELSE CASE scheme = AlgId.Xor ->
                        TPMS_SCHEME_XOR_ffi_data_zeroize(read, details)
                   [] scheme = AlgId.Hmac ->
                        TPMS_SCHEME_HASH_ffi_data_zeroize(read, details)
                   [] OTHER -> read
    IN Zeroize(matched, at + TPMT_KEYEDHASH_SCHEME.scheme)

\* Lines 295-314.
TPMT_RSA_SCHEME_ffi_data_zeroize(st, at) ==
    LET read == TryFrom(st, at + TPMT_RSA_SCHEME.scheme, TPMT_RSA_SCHEME.sizeof)
        scheme == st.mem[at + TPMT_RSA_SCHEME.scheme]
        details == at + TPMT_RSA_SCHEME.details
        matched ==
            IF scheme \notin RsaSchemeAlgorithm THEN read
            ELSE CASE scheme \in {AlgId.RsaSsa, AlgId.RsaPss, AlgId.Oaep} ->
                        TPMS_SCHEME_HASH_ffi_data_zeroize(read, details)
                   [] OTHER -> read
    IN Zeroize(matched, at + TPMT_RSA_SCHEME.scheme)

\* Lines 316-343.
TPMT_ECC_SCHEME_ffi_data_zeroize(st, at) ==
    LET read == TryFrom(st, at + TPMT_ECC_SCHEME.scheme, TPMT_ECC_SCHEME.sizeof)
        scheme == st.mem[at + TPMT_ECC_SCHEME.scheme]
        details == at + TPMT_ECC_SCHEME.details
        matched ==
            IF scheme \notin EccSchemeAlgorithm THEN read
            ELSE CASE scheme = AlgId.EcDaa ->
                        TPMS_SCHEME_ECDAA_ffi_data_zeroize(read, details)
                   [] scheme \in {AlgId.EcDsa, AlgId.EcDh, AlgId.Sm2,
                                  AlgId.EcSchnorr, AlgId.EcMqv} ->
                        TPMS_SCHEME_HASH_ffi_data_zeroize(read, details)
                   [] OTHER -> read
    IN Zeroize(matched, at + TPMT_ECC_SCHEME.scheme)

\* Mutation of TPMT_KDF_SCHEME_ffi_data_zeroize: scheme is zeroed before the
\* details of the variant it selected.
TPMT_KDF_SCHEME_ffi_data_zeroize_scheme_first(st, at) ==
    LET read == TryFrom(st, at + TPMT_KDF_SCHEME.scheme, TPMT_KDF_SCHEME.sizeof)
        scheme == st.mem[at + TPMT_KDF_SCHEME.scheme]
        zeroed == Zeroize(read, at + TPMT_KDF_SCHEME.scheme)
    IN IF scheme \in KeyDerivationFunction \ {AlgId.Null}
       THEN TPMS_SCHEME_HASH_ffi_data_zeroize(zeroed, at + TPMT_KDF_SCHEME.details)
       ELSE zeroed

\* Lines 345-366.
TPMT_KDF_SCHEME_ffi_data_zeroize(st, at) ==
    LET read == TryFrom(st, at + TPMT_KDF_SCHEME.scheme, TPMT_KDF_SCHEME.sizeof)
        scheme == st.mem[at + TPMT_KDF_SCHEME.scheme]
        details == at + TPMT_KDF_SCHEME.details
        matched ==
            IF scheme \notin KeyDerivationFunction THEN read
            ELSE CASE scheme \in {AlgId.Kdf1Sp800_56a, AlgId.Kdf2,
                                  AlgId.Kdf1Sp800_108, AlgId.Mgf1} ->
                        TPMS_SCHEME_HASH_ffi_data_zeroize(read, details)
                   [] OTHER -> read
    IN Zeroize(matched, at + TPMT_KDF_SCHEME.scheme)

\* Line 152.
TPMS_KEYEDHASH_PARMS_ffi_data_zeroize(st, at) ==
    TPMT_KEYEDHASH_SCHEME_ffi_data_zeroize(st, at + TPMS_KEYEDHASH_PARMS.scheme)

\* Line 153.
TPMS_SYMCIPHER_PARMS_ffi_data_zeroize(st, at) ==
    TPMT_SYM_DEF_OBJECT_ffi_data_zeroize(st, at + TPMS_SYMCIPHER_PARMS.sym)

\* Lines 155-162.
TPMS_ECC_PARMS_ffi_data_zeroize(st, at) ==
    LET symmetric == TPMT_SYM_DEF_OBJECT_ffi_data_zeroize(
                        st, at + TPMS_ECC_PARMS.symmetric)
        scheme == TPMT_ECC_SCHEME_ffi_data_zeroize(
                        symmetric, at + TPMS_ECC_PARMS.scheme)
        curveID == Zeroize(scheme, at + TPMS_ECC_PARMS.curveID)
    IN TPMT_KDF_SCHEME_ffi_data_zeroize(curveID, at + TPMS_ECC_PARMS.kdf)

\* Lines 164-171.
TPMS_RSA_PARMS_ffi_data_zeroize(st, at) ==
    LET symmetric == TPMT_SYM_DEF_OBJECT_ffi_data_zeroize(
                        st, at + TPMS_RSA_PARMS.symmetric)
        scheme == TPMT_RSA_SCHEME_ffi_data_zeroize(
                        symmetric, at + TPMS_RSA_PARMS.scheme)
        keyBits == Zeroize(scheme, at + TPMS_RSA_PARMS.keyBits)
    IN Zeroize(keyBits, at + TPMS_RSA_PARMS.exponent)

\* Line 173.
TPMS_ECC_POINT_ffi_data_zeroize(st, at) ==
    TPM2B_ffi_data_zeroize(TPM2B_ffi_data_zeroize(st, at + TPMS_ECC_POINT.x),
                           at + TPMS_ECC_POINT.y)

\* Lines 223-276.  The write to type_ (line 273) is inside the `if let Ok`.
TPMT_PUBLIC_ffi_data_zeroize(st, at) ==
    LET read == TryFrom(st, at + TPMT_PUBLIC.type_, TPMT_PUBLIC.sizeof)
        type_ == st.mem[at + TPMT_PUBLIC.type_]
        objectAttributes == Zeroize(read, at + TPMT_PUBLIC.objectAttributes)
        nameAlg == Zeroize(objectAttributes, at + TPMT_PUBLIC.nameAlg)
        authPolicy == TPM2B_ffi_data_zeroize(nameAlg, at + TPMT_PUBLIC.authPolicy)
        parameters ==
            CASE type_ = AlgId.Rsa ->
                    TPMS_RSA_PARMS_ffi_data_zeroize(
                        authPolicy, at + TPMT_PUBLIC.parameters)
              [] type_ = AlgId.KeyedHash ->
                    TPMS_KEYEDHASH_PARMS_ffi_data_zeroize(
                        authPolicy, at + TPMT_PUBLIC.parameters)
              [] type_ = AlgId.Ecc ->
                    TPMS_ECC_PARMS_ffi_data_zeroize(
                        authPolicy, at + TPMT_PUBLIC.parameters)
              [] type_ = AlgId.SymCipher ->
                    TPMS_SYMCIPHER_PARMS_ffi_data_zeroize(
                        authPolicy, at + TPMT_PUBLIC.parameters)
        unique ==
            CASE type_ \in {AlgId.Rsa, AlgId.KeyedHash, AlgId.SymCipher} ->
                    TPM2B_ffi_data_zeroize(parameters, at + TPMT_PUBLIC.unique)
              [] type_ = AlgId.Ecc ->
                    TPMS_ECC_POINT_ffi_data_zeroize(
                        parameters, at + TPMT_PUBLIC.unique)
    IN IF type_ \in PublicAlgorithm
       THEN Zeroize(unique, at + TPMT_PUBLIC.type_)
       ELSE read

\* The structure types that carry a discriminant.
TaggedUnions ==
    {"TPMT_SYM_DEF_OBJECT", "TPMT_PUBLIC", "TPMT_KEYEDHASH_SCHEME",
     "TPMT_RSA_SCHEME", "TPMT_ECC_SCHEME", "TPMT_KDF_SCHEME"}

\* Lines 95-108 and 117: the length-prefixed buffer types.
FlatBuffers ==
    {"TPM2B_DIGEST", "TPM2B_DATA", "TPM2B_ECC_PARAMETER",
     "TPM2B_ENCRYPTED_SECRET", "TPM2B_ID_OBJECT", "TPM2B_IV",
     "TPM2B_MAX_BUFFER", "TPM2B_MAX_NV_BUFFER", "TPM2B_PRIVATE",
     "TPM2B_PRIVATE_KEY_RSA", "TPM2B_PRIVATE_VENDOR_SPECIFIC",
     "TPM2B_PUBLIC_KEY_RSA", "TPM2B_SENSITIVE_DATA", "TPM2B_SYM_KEY",
     "TPM2B_NAME"}

\* The size of a structure type.
SizeOf(type) ==
    CASE type \in FlatBuffers -> TPM2B.sizeof
      [] type = "TPMT_SYM_DEF_OBJECT" -> TPMT_SYM_DEF_OBJECT.sizeof
      [] type = "TPMT_PUBLIC" -> TPMT_PUBLIC.sizeof
      [] type = "TPMT_KEYEDHASH_SCHEME" -> TPMT_KEYEDHASH_SCHEME.sizeof
      [] type = "TPMT_RSA_SCHEME" -> TPMT_RSA_SCHEME.sizeof
      [] type = "TPMT_ECC_SCHEME" -> TPMT_ECC_SCHEME.sizeof
      [] type = "TPMT_KDF_SCHEME" -> TPMT_KDF_SCHEME.sizeof

\* FfiDataZeroize::ffi_data_zeroize for a structure of the given type at 1.
ffi_data_zeroize(type, st) ==
    CASE type \in FlatBuffers -> TPM2B_ffi_data_zeroize(st, 1)
      [] type = "TPMT_SYM_DEF_OBJECT" -> TPMT_SYM_DEF_OBJECT_ffi_data_zeroize(st, 1)
      [] type = "TPMT_PUBLIC" -> TPMT_PUBLIC_ffi_data_zeroize(st, 1)
      [] type = "TPMT_KEYEDHASH_SCHEME" -> TPMT_KEYEDHASH_SCHEME_ffi_data_zeroize(st, 1)
      [] type = "TPMT_RSA_SCHEME" -> TPMT_RSA_SCHEME_ffi_data_zeroize(st, 1)
      [] type = "TPMT_ECC_SCHEME" -> TPMT_ECC_SCHEME_ffi_data_zeroize(st, 1)
      [] type = "TPMT_KDF_SCHEME" -> TPMT_KDF_SCHEME_ffi_data_zeroize(st, 1)

\* What a received structure may hold: a non-zero value in the cells that
\* carry data, and in a discriminant any algorithm identifier, zero, or a
\* value no enumeration knows.
Content == [secret |-> 85, unknown |-> 99]

DiscriminantValues ==
    {AlgId[name] : name \in DOMAIN AlgId} \cup {0, Content.unknown}

\* A structure of one of the five scheme types: any discriminant.
SchemeInputs ==
    {[type |-> type,
      mem |-> [c \in 1..SizeOf(type) |-> IF c = 1 THEN d ELSE Content.secret]] :
        type \in TaggedUnions \ {"TPMT_PUBLIC"}, d \in DiscriminantValues}

\* A TPMT_PUBLIC: a value for type_ and for each cell of the parameters
\* union that one of its variants reads as a discriminant.
PublicInputs ==
    {[type |-> "TPMT_PUBLIC",
      mem |-> [c \in 1..TPMT_PUBLIC.sizeof |->
                 CASE c = 1 + TPMT_PUBLIC.type_ -> type_
                   [] c = 1 + TPMT_PUBLIC.parameters -> first
                   [] c = 1 + TPMT_PUBLIC.parameters + TPMS_ECC_PARMS.scheme -> scheme
                   [] c = 1 + TPMT_PUBLIC.parameters + TPMS_ECC_PARMS.kdf -> kdf
                   [] OTHER -> Content.secret]] :
        type_ \in PublicAlgorithm \cup {AlgId.Aes, 0, Content.unknown},
        first \in {AlgId.Aes, AlgId.Tdes, AlgId.Null, AlgId.Hmac, AlgId.Xor,
                   Content.unknown},
        scheme \in {AlgId.RsaSsa, AlgId.RsaEs, AlgId.EcDaa, AlgId.EcDsa,
                    AlgId.Null, Content.unknown},
        kdf \in {AlgId.Kdf2, AlgId.Null, Content.unknown, Content.secret}}

\* A length-prefixed buffer: any logical length up to the capacity, data in
\* the bytes in use and other non-zero bytes beyond them.
BufferInputs ==
    {[type |-> type,
      mem |-> [c \in 1..TPM2B.sizeof |->
                 CASE c = 1 + TPM2B.size -> size
                   [] c - TPM2B.buffer <= size -> Content.secret
                   [] OTHER -> Content.unknown]] :
        type \in FlatBuffers, size \in 0..BufferLen}

\* A structure arrives from the native layer.
ReceiveStructure ==
    /\ \E data \in SchemeInputs \cup PublicInputs \cup BufferInputs :
          ffi_data' = data
    /\ zeroize_run' = NoRun
    /\ UNCHANGED <<sessions, esys_context, handle_manager, stack, calls, last,
                   pc, todo, at_drop, leak_reported, cached_tpm_properties>>

\* ffi_data_zeroize() on the structure received.
FfiDataZeroize ==
    /\ ffi_data.type # "none"
    /\ zeroize_run = NoRun
    /\ LET done == ffi_data_zeroize(ffi_data.type, [mem |-> ffi_data.mem, log |-> <<>>])
       IN /\ ffi_data' = [type |-> ffi_data.type, mem |-> done.mem]
          /\ zeroize_run' = [type |-> ffi_data.type, before |-> ffi_data.mem,
                             log |-> done.log]
    /\ UNCHANGED <<sessions, esys_context, handle_manager, stack, calls, last,
                   pc, todo, at_drop, leak_reported, cached_tpm_properties>>

\* ffi_data_zeroize() once more on the structure the first run left.
FfiDataZeroizeAgain ==
    /\ zeroize_run.type # "none"
    /\ DOMAIN zeroize_run = {"type", "before", "log"}
    /\ LET done == ffi_data_zeroize(ffi_data.type, [mem |-> ffi_data.mem, log |-> <<>>])
       IN /\ ffi_data' = [type |-> ffi_data.type, mem |-> done.mem]
          /\ zeroize_run' = [type |-> zeroize_run.type,
                             before |-> zeroize_run.before,
                             log |-> zeroize_run.log,
                             again |-> [before |-> ffi_data.mem, log |-> done.log]]
    /\ UNCHANGED <<sessions, esys_context, handle_manager, stack, calls, last,
                   pc, todo, at_drop, leak_reported, cached_tpm_properties>>

NextZeroize ==
    \/ ReceiveStructure
    \/ FfiDataZeroize
    \/ FfiDataZeroizeAgain

SpecZeroize == Init /\ [][NextZeroize]_vars

\* ------------------------------------------------------------------ claims
\* Steps of the scoped helpers, recognised by what they do to the stack.
CallStepOf(op) ==
    /\ Len(stack') = Len(stack) + 1
    /\ stack'[Len(stack')].op = op

ReturnStepOf(op) ==
    /\ Len(stack) > 0
    /\ Len(stack') = Len(stack) - 1
    /\ Top.op = op

\* The flush calls in a log of native calls.
FlushCallsOf(log, handle) ==
    {i \in 1..Len(log) : log[i].call = "Esys_FlushContext" /\ log[i].handle = handle}

CloseCallsOf(log, handle) ==
    {i \in 1..Len(log) : log[i].call = "Esys_TR_Close" /\ log[i].handle = handle}

CallsNamed(log, name) == {i \in 1..Len(log) : log[i].call = name}

FailedCalls(log) == {i \in 1..Len(log) : ~log[i].ok}

\* C1: execute_with_sessions(S1, f) starts f with the slots equal to S1 and
\* leaves the slots as they were when it was called, whatever f returned and
\* whatever f did to the slots.
C1_SessionScopeRestoration ==
    [][ /\ CallStepOf("execute_with_sessions")
            => sessions' = stack'[Len(stack')].inner
        /\ ReturnStepOf("execute_with_sessions")
            => sessions' = Top.entry /\ last'.result = last'.fres ]_vars

\* C1 witness: an execute_with_sessions whose closure failed and left other
\* slots than it was given has returned inside another helper's closure,
\* and the slots are the caller's again.
C1_Witness ==
    /\ last.op = "execute_with_sessions"
    /\ ~IsOk(last.result)
    /\ last.exit # last.inner
    /\ last.exit # last.entry
    /\ last.entry # last.inner
    /\ last.entry # NoSessions
    /\ Depth > 0
    /\ sessions = last.entry

\* C2: execute_with_temporary_object makes no native call before f is
\* invoked and, once f has returned, exactly one: the flush of its object,
\* whether f succeeded or failed.
C2_TemporaryObjectFlushedOnce ==
    [][ /\ CallStepOf("execute_with_temporary_object") => calls' = <<>>
        /\ ReturnStepOf("execute_with_temporary_object")
            => /\ Len(calls') = 1
               /\ FlushCallsOf(calls', Top.handle) = {1}
               /\ stack' = Pop ]_vars

\* C2 witness: the closure failed and the object was flushed all the same.
C2_Witness ==
    /\ last.op = "execute_with_temporary_object"
    /\ ~IsOk(last.fres)
    /\ FlushCallsOf(calls, last.handle) = {1}

\* C3: execute_with_temporary_object returns f's result when the flush
\* succeeded and the flush error when the flush failed.
C3_TemporaryObjectResult ==
    last.op = "execute_with_temporary_object" =>
        /\ Len(calls) = 1
        /\ calls[1].ok => last.result = last.fres
        /\ ~calls[1].ok => last.result = TssError("Esys_FlushContext")

\* C3 witness: the closure failed with E, the flush failed too, and the
\* flush error is what was returned.
C3_Witness ==
    /\ last.op = "execute_with_temporary_object"
    /\ last.fres = Err("E", "closure")
    /\ FailedCalls(calls) = {1}
    /\ last.result = TssError("Esys_FlushContext")

\* C4 as claimed: execute_with_nullauth_session returns f's result also
\* when the flush of the temporary session fails.
C4_AsClaimed ==
    (last.op = "execute_with_nullauth_session" /\ last.invoked) =>
        last.result = last.fres

\* C4 amended: execute_with_nullauth_session returns f's result when the
\* flush of the temporary session succeeded, and the flush error, in place
\* of f's value or error, when the flush failed.
C4_NullauthResult ==
    (last.op = "execute_with_nullauth_session" /\ last.invoked) =>
        /\ Len(calls) = 1
        /\ calls[1].ok => last.result = last.fres
        /\ ~calls[1].ok => last.result = TssError("Esys_FlushContext")

\* C4 witness: the closure succeeded, the flush failed, and the caller got
\* the flush error.
C4_Witness ==
    /\ last.op = "execute_with_nullauth_session"
    /\ last.invoked
    /\ IsOk(last.fres)
    /\ FailedCalls(calls) = {1}
    /\ last.result = TssError("Esys_FlushContext")

\* C5: execute_with_nullauth_session invokes f with the slots equal to
\* (the session just started, None, None); once f has returned it flushes
\* that session exactly once, whether f succeeded or failed, and the slots
\* are again what they were when it was called.
C5_NullauthScope ==
    [][ /\ CallStepOf("execute_with_nullauth_session")
            => /\ calls'[1].call = "Esys_StartAuthSession"
               /\ calls'[1].out[1] = "Some"
               /\ sessions' = <<HmacSession(calls'[1].out[2]), NoSession, NoSession>>
               /\ stack'[Len(stack')].auth_session = HmacSession(calls'[1].out[2])
        /\ ReturnStepOf("execute_with_nullauth_session")
            => /\ Len(calls') = 1
               /\ FlushCallsOf(calls', Top.auth_session[2]) = {1}
               /\ sessions' = Top.entry ]_vars

\* C5 witness: the closure failed and left other slots behind; the session
\* was flushed and the caller's (non-empty) slots are back.
C5_Witness ==
    /\ last.op = "execute_with_nullauth_session"
    /\ last.invoked
    /\ ~IsOk(last.fres)
    /\ last.exit # last.inner
    /\ last.entry # NoSessions
    /\ sessions = last.entry
    /\ FlushCallsOf(calls, last.auth_session[2]) = {1}

\* C6: when starting the session fails or yields no session,
\* execute_with_nullauth_session returns the start error, respectively
\* WrongValueFromTpm, without invoking f, without a flush, and with the
\* slots unchanged.
C6_NullauthStartFailure ==
    [][ ( /\ calls' # <<>>
          /\ calls'[1].call = "Esys_StartAuthSession"
          /\ calls'[1].out[1] # "Some" )
        => /\ stack' = stack
           /\ sessions' = sessions
           /\ CallsNamed(calls', "Esys_FlushContext") = {}
           /\ last'.op = "execute_with_nullauth_session"
           /\ ~last'.invoked
           /\ calls'[1].out[1] = "Err"
                 => last'.result = TssError("Esys_StartAuthSession")
           /\ calls'[1].out[1] = "None" => last'.result = WrongValueFromTpm ]_vars

\* C6 witness: inside a closure and with sessions set, the module answered
\* the start with no session and the helper returned WrongValueFromTpm.
C6_Witness ==
    /\ last.op = "execute_with_nullauth_session"
    /\ ~last.invoked
    /\ last.out = <<"None">>
    /\ last.result = WrongValueFromTpm
    /\ sessions # NoSessions
    /\ Depth > 0

\* C7: when Drop is over, every handle that was registered for flushing when
\* it began has had exactly one flush call and every handle registered for
\* closing exactly one close call, and there were no other release calls,
\* whichever of the calls failed.
C7_TeardownExhaustive ==
    pc = "closed" =>
        /\ \A h \in handles_to_flush(at_drop) : Cardinality(FlushCallsOf(calls, h)) = 1
        /\ \A h \in handles_to_close(at_drop) : Cardinality(CloseCallsOf(calls, h)) = 1
        /\ Cardinality(CallsNamed(calls, "Esys_FlushContext"))
              = Cardinality(handles_to_flush(at_drop))
        /\ Cardinality(CallsNamed(calls, "Esys_TR_Close"))
              = Cardinality(handles_to_close(at_drop))

\* C7 witness: a sweep over two handles to flush and one to close, in which
\* the first call failed and the others were made all the same.
C7_Witness ==
    /\ pc = "closed"
    /\ Cardinality(handles_to_flush(at_drop)) = 2
    /\ Cardinality(handles_to_close(at_drop)) = 1
    /\ 1 \in FailedCalls(calls)
    /\ Len(calls) = 4

\* C8: the channel is released exactly once, by the last step of Drop, after
\* all release calls of the sweep and whether or not they failed; the
\* context goes from Open to TearingDown to Closed and never back.
C8_ChannelReleasedOnceLast ==
    /\ [] /\ (esys_context = "None") <=> (pc = "closed")
          /\ Cardinality(CallsNamed(calls, "Esys_Finalize"))
                = (IF pc = "closed" THEN 1 ELSE 0)
          /\ pc = "closed" =>
                /\ Len(calls) = Cardinality(at_drop) + 1
                /\ calls[Len(calls)].call = "Esys_Finalize"
    /\ [][ State' # State =>
             <<State, State'>> \in {<<"Open", "TearingDown">>,
                                    <<"TearingDown", "Closed">>} ]_vars

\* C8 witness: the channel was released although release calls failed and
\* handles are still registered.
C8_Witness ==
    /\ pc = "closed"
    /\ esys_context = "None"
    /\ handle_manager # {}
    /\ Cardinality(FailedCalls(calls)) >= 2
    /\ calls[Len(calls)].call = "Esys_Finalize"

\* C9: when Drop is over the registry holds exactly the handles whose
\* release call failed, has_open_handles() tells whether a call failed, and
\* the leak diagnostic was logged exactly in that case.  From the registry
\* {(7, Flush), (9, Close)} a sweep without failures flushes 7, closes 9 and
\* leaves the registry empty.
C9_RegistryAfterSweep ==
    /\ pc # "closed" => ~leak_reported
    /\ pc = "closed" =>
          /\ handle_manager =
                {e \in at_drop : \E i \in FailedCalls(calls) : calls[i].handle = e[1]}
          /\ has_open_handles(handle_manager) <=> FailedCalls(calls) # {}
          /\ leak_reported <=> has_open_handles(handle_manager)
          /\ (at_drop = {<<7, "Flush">>, <<9, "Close">>} /\ FailedCalls(calls) = {})
                => /\ calls = <<NativeCall("Esys_FlushContext", 7, TRUE),
                                NativeCall("Esys_TR_Close", 9, TRUE),
                                [call |-> "Esys_Finalize", ok |-> TRUE]>>
                   /\ handle_manager = {}
                   /\ ~has_open_handles(handle_manager)

\* C9 witness: the scenario, swept without failures.
C9_Witness ==
    /\ pc = "closed"
    /\ at_drop = {<<7, "Flush">>, <<9, "Close">>}
    /\ FailedCalls(calls) = {}
    /\ handle_manager = {}
    /\ ~leak_reported

\* C10: no handle is in the registry twice: two entries with the same handle
\* are the same entry, so a handle has one disposition.
C10_RegistryUniqueness ==
    \A e1 \in handle_manager, e2 \in handle_manager : e1[1] = e2[1] => e1 = e2

\* C10 witness: an add_handle with the other disposition has just failed on a
\* registry of several handles, and the registry is as it was.
C10_Witness ==
    /\ last.op = "add_handle"
    /\ ~IsOk(last.result)
    /\ Cardinality(handle_manager) >= 2
    /\ handle_manager = last.before

\* C11: add_handle(h, d) adds h with d when h is not registered, succeeds
\* and changes nothing when h is registered with d, and fails and changes
\* nothing when h is registered with the other disposition.
C11_AddHandle ==
    last.op = "add_handle" =>
        LET h == last.handle
            d == last.disposition
        IN
        /\ ~Registered(last.before, h)
              => /\ IsOk(last.result)
                 /\ handle_manager = last.before \cup {<<h, d>>}
        /\ <<h, d>> \in last.before
              => /\ IsOk(last.result)
                 /\ handle_manager = last.before
        /\ (Registered(last.before, h) /\ <<h, d>> \notin last.before)
              => /\ ~IsOk(last.result)
                 /\ handle_manager = last.before
                 /\ \E e \in handle_manager : e[1] = h /\ e[2] # d

\* C11 witness: handle 7, registered to be flushed beside another handle,
\* was added again to be closed; the call failed and 7 is still to be flushed.
C11_Witness ==
    /\ last.op = "add_handle"
    /\ last.handle = 7
    /\ last.disposition = "Close"
    /\ ~IsOk(last.result)
    /\ <<7, "Flush">> \in handle_manager
    /\ Cardinality(handle_manager) = 2

\* C12: remove_handle(h) takes the entry of h out of the registry, so that h
\* is in neither release list; when h is not registered it changes nothing
\* and reports no error, and removing h once more changes nothing.
C12_RemoveHandle ==
    last.op = "remove_handle" =>
        LET h == last.handle IN
        /\ IsOk(last.result)
        /\ handle_manager = {e \in last.before : e[1] # h}
        /\ h \notin handles_to_flush(handle_manager)
        /\ h \notin handles_to_close(handle_manager)
        /\ has_open_handles(handle_manager)
              <=> (\E e \in last.before : e[1] # h)
        /\ ~Registered(last.before, h) => handle_manager = last.before
        /\ remove_handle(handle_manager, h) = handle_manager

\* C12 witness: handle 9, registered to be closed beside another handle, was
\* removed and the other handle is still registered.
C12_Witness ==
    /\ last.op = "remove_handle"
    /\ last.handle = 9
    /\ <<9, "Close">> \in last.before
    /\ Cardinality(last.before) = 2
    /\ Cardinality(handle_manager) = 1

\* The last two steps were get_tpm_property calls for the same tag.
TwoSuccessiveCalls ==
    /\ last.op = "get_tpm_property"
    /\ last.prev.op = "get_tpm_property"
    /\ last.prev.property = last.property

\* C13 as stated: two successive get_tpm_property calls for one tag issue at
\* most one capability query in total and return the same value.
C13_AsClaimed ==
    TwoSuccessiveCalls =>
        /\ last.prev.queries + Len(calls) <= 1
        /\ last.result = last.prev.result

\* C13: when get_tpm_property(tag) returned Some(v), the call for the same
\* tag that follows it issues no capability query and returns Some(v) again;
\* when it returned None or an error, the call that follows queries again.
C13_CacheIdempotence ==
    TwoSuccessiveCalls =>
        /\ last.prev.result[2] = "Some" =>
              /\ Len(calls) = 0
              /\ last.result = last.prev.result
        /\ last.prev.result[2] # "Some" => Len(calls) = 1

C13_Witness ==
    /\ TwoSuccessiveCalls
    /\ last.prev.queries = 1
    /\ last.prev.result[2] = "Some"
    /\ Len(calls) = 0
    /\ last.result = last.prev.result

\* C14 as stated: a tag that has a cached value is never removed from the
\* cache and its cached value never changes.
C14_AsClaimed ==
    [][\A entry \in cached_tpm_properties : entry \in cached_tpm_properties']_vars

\* C15: a cache hit returns the cached value without a capability query; a
\* miss issues exactly one query for four entries starting at the tag, caches
\* every returned pair, and returns the tag's value when the returned entries
\* hold it and None otherwise.
C15_HitAndMiss ==
    last.op = "get_tpm_property" =>
        LET held == {e \in last.before : e[1] = last.property} IN
        /\ held # {} =>
              /\ calls = <<>>
              /\ \E e \in held : last.result = OkSome(e[2])
              /\ cached_tpm_properties = last.before
        /\ held = {} =>
              /\ Len(calls) = 1
              /\ calls[1].call = "Esys_GetCapability"
              /\ calls[1].capability = "TpmProperties"
              /\ calls[1].property = last.property
              /\ calls[1].property_count = 4
              /\ last.response.kind = "TpmProperties" =>
                    LET returned == {last.response.props[k] :
                                        k \in 1..Len(last.response.props)}
                    IN
                    /\ returned \subseteq cached_tpm_properties
                    /\ \A e \in returned :
                          e[1] = last.property => last.result = OkSome(e[2])
                    /\ (\A e \in returned : e[1] # last.property) =>
                          last.result = OkNone

C15_Witness ==
    /\ last.op = "get_tpm_property"
    /\ last.response.kind = "TpmProperties"
    /\ Len(last.response.props) = 2
    /\ last.response.props[1][1] # last.property
    /\ last.result = OkNone
    /\ Cardinality(cached_tpm_properties) = 2

\* C16: get_tpm_property fails with WrongValueFromTpm when the response is
\* not a property list and with the module's error when the query fails; the
\* cache is unchanged in both cases.
C16_QueryFailure ==
    (last.op = "get_tpm_property" /\ last.response.kind \in {"Other", "Err"}) =>
        /\ last.response.kind = "Other" =>
              last.result = <<"Err", "WrapperError", "WrongValueFromTpm">>
        /\ last.response.kind = "Err" =>
              last.result = <<"Err", "Tss2ResponseCode", "Esys_GetCapability">>
        /\ cached_tpm_properties = last.before

C16_Witness ==
    /\ last.op = "get_tpm_property"
    /\ last.response.kind = "Other"
    /\ last.result = WrongValueFromTpm
    /\ cached_tpm_properties # {}

\* C17: an empty slot resolved as optional yields the no-session handle and
\* no error; an empty slot resolved as required yields MissingAuthSession
\* with no native call made; a filled slot resolves to the handle of the
\* session in that slot; resolution leaves the slots as they were.
C17_SessionResolution ==
    last.op = "resolve_session" =>
        LET slot == sessions[last.slot] IN
        /\ sessions = last.entry
        /\ calls = <<>>
        /\ (slot = NoSession /\ last.mode = "optional") =>
              /\ last.result.ok
              /\ last.result.handle = ESYS_TR_NONE
        /\ (slot = NoSession /\ last.mode = "required") =>
              /\ ~last.result.ok
              /\ last.result.err = "MissingAuthSession"
        /\ slot = Password =>
              /\ last.result.ok
              /\ last.result.handle = ESYS_TR_PASSWORD
        /\ slot[1] = "HmacSession" =>
              /\ last.result.ok
              /\ last.result.handle = slot[2]

C17_Witness ==
    /\ last.op = "resolve_session"
    /\ last.mode = "required"
    /\ last.slot = 1
    /\ sessions = <<NoSession, HmacSession(1), Password>>
    /\ ~last.result.ok


\* The values the discriminant of a structure type decodes from.
Decodable(type) ==
    CASE type = "TPMT_SYM_DEF_OBJECT" -> SymmetricObject
      [] type = "TPMT_PUBLIC" -> PublicAlgorithm
      [] type = "TPMT_KEYEDHASH_SCHEME" -> KeyedHashSchemeAlgorithm
      [] type = "TPMT_RSA_SCHEME" -> RsaSchemeAlgorithm
      [] type = "TPMT_ECC_SCHEME" -> EccSchemeAlgorithm
      [] type = "TPMT_KDF_SCHEME" -> KeyDerivationFunction

Cells(at, len) == at..(at + len - 1)

\* The cells of the variant a discriminant selects in a structure of one of
\* the five scheme types at `at`, for the content `m`; none when the
\* discriminant does not decode or selects a variant without members.
VariantCells(type, m, at) ==
    LET d == m[at] IN
    CASE type = "TPMT_SYM_DEF_OBJECT" /\ d \in {AlgId.Aes, AlgId.Sm4, AlgId.Camellia} ->
            Cells(at + 1, 2)
      [] type = "TPMT_KEYEDHASH_SCHEME" /\ d = AlgId.Xor -> Cells(at + 1, 2)
      [] type = "TPMT_KEYEDHASH_SCHEME" /\ d = AlgId.Hmac -> Cells(at + 1, 1)
      [] type = "TPMT_RSA_SCHEME" /\ d \in {AlgId.RsaSsa, AlgId.RsaPss, AlgId.Oaep} ->
            Cells(at + 1, 1)
      [] type = "TPMT_ECC_SCHEME" /\ d = AlgId.EcDaa -> Cells(at + 1, 2)
      [] type = "TPMT_ECC_SCHEME" /\ d \in EccSchemeAlgorithm \ {AlgId.EcDaa, AlgId.Null} ->
            Cells(at + 1, 1)
      [] type = "TPMT_KDF_SCHEME" /\ d \in KeyDerivationFunction \ {AlgId.Null} ->
            Cells(at + 1, 1)
      [] OTHER -> {}

\* A nested union: its discriminant and the cells of the variant it selects.
NestedCells(type, m, at) == {at} \cup VariantCells(type, m, at)

\* The parameter and unique areas of a TPMT_PUBLIC with a decodable type_:
\* `whole` takes every cell of the selected variants, otherwise nested unions
\* count with their discriminant and the variant that one selects.
PublicVariantCells(m, whole) ==
    LET p == 1 + TPMT_PUBLIC.parameters
        u == 1 + TPMT_PUBLIC.unique
        type_ == m[1]
    IN
    CASE type_ = AlgId.Rsa ->
            (IF whole THEN Cells(p, TPMS_RSA_PARMS.sizeof)
             ELSE NestedCells("TPMT_SYM_DEF_OBJECT", m, p + TPMS_RSA_PARMS.symmetric)
                  \cup NestedCells("TPMT_RSA_SCHEME", m, p + TPMS_RSA_PARMS.scheme)
                  \cup {p + TPMS_RSA_PARMS.keyBits, p + TPMS_RSA_PARMS.exponent})
            \cup Cells(u, TPM2B.sizeof)
      [] type_ = AlgId.KeyedHash ->
            (IF whole THEN Cells(p, TPMS_KEYEDHASH_PARMS.sizeof)
             ELSE NestedCells("TPMT_KEYEDHASH_SCHEME", m, p + TPMS_KEYEDHASH_PARMS.scheme))
            \cup Cells(u, TPM2B.sizeof)
      [] type_ = AlgId.Ecc ->
            (IF whole THEN Cells(p, TPMS_ECC_PARMS.sizeof)
             ELSE NestedCells("TPMT_SYM_DEF_OBJECT", m, p + TPMS_ECC_PARMS.symmetric)
                  \cup NestedCells("TPMT_ECC_SCHEME", m, p + TPMS_ECC_PARMS.scheme)
                  \cup {p + TPMS_ECC_PARMS.curveID}
                  \cup NestedCells("TPMT_KDF_SCHEME", m, p + TPMS_ECC_PARMS.kdf))
            \cup Cells(u, TPMS_ECC_POINT.sizeof)
      [] type_ = AlgId.SymCipher ->
            (IF whole THEN Cells(p, TPMS_SYMCIPHER_PARMS.sizeof)
             ELSE NestedCells("TPMT_SYM_DEF_OBJECT", m, p + TPMS_SYMCIPHER_PARMS.sym))
            \cup Cells(u, TPM2B.sizeof)

ActiveVariantCells(type, m, whole) ==
    IF type = "TPMT_PUBLIC" THEN PublicVariantCells(m, whole)
    ELSE VariantCells(type, m, 1)

\* ffi_data_zeroize has run on a structure whose discriminant decoded.
ZeroizedDecodable ==
    /\ zeroize_run.type \in TaggedUnions
    /\ zeroize_run.before[1] \in Decodable(zeroize_run.type)

\* C18 as stated: for a discriminant that decodes, every cell of the active
\* variant's fields, nested unions included whole, is zero afterwards, and so
\* is the discriminant.
C18_AsClaimed ==
    ZeroizedDecodable =>
        /\ ffi_data.mem[1] = 0
        /\ \A c \in ActiveVariantCells(zeroize_run.type, zeroize_run.before, TRUE) :
              ffi_data.mem[c] = 0

\* C18: for a discriminant that decodes, the discriminant and every field of
\* the variant it selects are zero afterwards; a union nested in that
\* variant has its own discriminant zero and the fields of the variant that
\* one selected, if it decoded.
C18_ZeroizationCompleteness ==
    ZeroizedDecodable =>
        /\ ffi_data.mem[1] = 0
        /\ \A c \in ActiveVariantCells(zeroize_run.type, zeroize_run.before, FALSE) :
              ffi_data.mem[c] = 0

C18_Witness ==
    /\ ZeroizedDecodable
    /\ zeroize_run.type = "TPMT_PUBLIC"
    /\ zeroize_run.before[1] = AlgId.Ecc
    /\ zeroize_run.before[1 + TPMT_PUBLIC.parameters + TPMS_ECC_PARMS.scheme] = AlgId.EcDaa
    /\ zeroize_run.before[1 + TPMT_PUBLIC.parameters + TPMS_ECC_PARMS.kdf] = AlgId.Kdf2
    /\ zeroize_run.before[1 + TPMT_PUBLIC.parameters] = AlgId.Aes
    /\ \A c \in 1..TPMT_PUBLIC.sizeof : ffi_data.mem[c] = 0

\* C19 as stated: for a discriminant that does not decode, the payload is
\* left as it was and the discriminant ends as zero.
C19_AsClaimed ==
    (/\ zeroize_run.type \in TaggedUnions
     /\ zeroize_run.before[1] \notin Decodable(zeroize_run.type)) =>
        /\ \A c \in 2..SizeOf(zeroize_run.type) :
              ffi_data.mem[c] = zeroize_run.before[c]
        /\ ffi_data.mem[1] = 0

WritesInto(log, at, len) ==
    {j \in 1..Len(log) : log[j].ev = "write" /\ log[j].at \in Cells(at, len)}

\* C20: each discriminant is decoded with the value it arrived with, before
\* any write to it, and no write into its structure follows the write that
\* zeroes it.
C20_DiscriminantOrdering ==
    zeroize_run.type # "none" =>
        \A k \in 1..Len(zeroize_run.log) :
            LET e == zeroize_run.log[k] IN
            e.ev = "decode" =>
                /\ e.value = zeroize_run.before[e.at]
                /\ \A j \in 1..(k - 1) :
                      ~(zeroize_run.log[j].ev = "write" /\ zeroize_run.log[j].at = e.at)
                /\ \A j \in WritesInto(zeroize_run.log, e.at, e.sizeof) :
                      \/ zeroize_run.log[j].at = e.at
                      \/ \E z \in WritesInto(zeroize_run.log, e.at, 1) : z > j

C20_Witness ==
    /\ zeroize_run.type = "TPMT_PUBLIC"
    /\ zeroize_run.before[1] = AlgId.Rsa
    /\ Cardinality({k \in 1..Len(zeroize_run.log) :
                       zeroize_run.log[k].ev = "decode"}) = 3
    /\ zeroize_run.log[Len(zeroize_run.log)] =
          [ev |-> "write", at |-> 1, sizeof |-> 1, value |-> 0]
    /\ \E c \in Cells(1 + TPMT_PUBLIC.parameters, 3) : ffi_data.mem[c] # 0

\* C21: after ffi_data_zeroize on a length-prefixed buffer of any logical
\* length, the size field is zero and so is every byte of the backing
\* buffer, those beyond the logical length included.
C21_FlatBufferZeroization ==
    zeroize_run.type \in FlatBuffers =>
        /\ ffi_data.mem[1 + TPM2B.size] = 0
        /\ \A b \in 1..BufferLen : ffi_data.mem[1 + TPM2B.size + b] = 0

C21_Witness ==
    /\ zeroize_run.type = "TPM2B_SENSITIVE_DATA"
    /\ zeroize_run.before[1 + TPM2B.size] = 0
    /\ zeroize_run.before[1 + TPM2B.buffer] # 0
    /\ \A c \in 1..TPM2B.sizeof : ffi_data.mem[c] = 0

\* C24 as stated: after ffi_data_zeroize on a TPMT_PUBLIC, objectAttributes,
\* nameAlg and authPolicy are zero, whatever type_ held.
C24_AsClaimed ==
    zeroize_run.type = "TPMT_PUBLIC" =>
        \A c \in {1 + TPMT_PUBLIC.objectAttributes, 1 + TPMT_PUBLIC.nameAlg}
                 \cup Cells(1 + TPMT_PUBLIC.authPolicy, TPM2B.sizeof) :
            ffi_data.mem[c] = 0

\* C27: a second ffi_data_zeroize, on the content the first one left,
\* changes nothing.
C27_Idempotent ==
    (zeroize_run.type # "none" /\ "again" \in DOMAIN zeroize_run) =>
        ffi_data.mem = zeroize_run.again.before

C27_Witness ==
    /\ zeroize_run.type = "TPMT_PUBLIC"
    /\ "again" \in DOMAIN zeroize_run
    /\ zeroize_run.before[1] = AlgId.Rsa
    /\ zeroize_run.before[1 + TPMT_PUBLIC.parameters] = Content.unknown
    /\ zeroize_run.again.log =
          <<[ev |-> "decode", at |-> 1, sizeof |-> TPMT_PUBLIC.sizeof, value |-> 0]>>
    /\ ffi_data.mem = zeroize_run.again.before
    /\ ffi_data.mem[1 + TPMT_PUBLIC.parameters + TPMT_SYM_DEF_OBJECT.keyBits] # 0

\* set_sessions, clear_sessions and sessions leave the module, the registry
\* and the property cache alone.
SlotAccessorFrame ==
    /\ calls' = <<>>
    /\ handle_manager' = handle_manager
    /\ cached_tpm_properties' = cached_tpm_properties
    /\ esys_context' = esys_context

\* C22: set_sessions(t) makes sessions() return t slot by slot,
\* clear_sessions() makes it return (None, None, None), sessions() changes
\* nothing, and none of the three makes a native call or touches the
\* registry or the property cache.
C22_SlotAccessors ==
    [][/\ last'.op = "set_sessions" =>
            /\ \A n \in 1..3 : sessions'[n] = last'.session_handles[n]
            /\ SlotAccessorFrame
       /\ last'.op = "clear_sessions" =>
            /\ sessions' = <<NoSession, NoSession, NoSession>>
            /\ SlotAccessorFrame
       /\ last'.op = "sessions" =>
            /\ last'.result = sessions
            /\ sessions' = sessions
            /\ SlotAccessorFrame
            /\ last'.after.op = "set_sessions" =>
                  last'.result = last'.after.session_handles
            /\ last'.after.op = "clear_sessions" =>
                  last'.result = <<NoSession, NoSession, NoSession>>]_vars

C22_Witness ==
    /\ last.op = "sessions"
    /\ last.after.op = "set_sessions"
    /\ last.result = <<NoSession, HmacSession(1), Password>>
    /\ cached_tpm_properties # {}

\* C25: the capability query of get_tpm_property runs with the three slots
\* empty, and the caller's slots are after the call what they were before
\* it, on a hit, a miss with or without a value, and an error.
C25_QueryWithoutSessions ==
    last.op = "get_tpm_property" =>
        /\ sessions = last.entry
        /\ \A k \in 1..Len(calls) :
              calls[k].sessions = <<NoSession, NoSession, NoSession>>

C25_Witness ==
    /\ last.op = "get_tpm_property"
    /\ last.entry = <<NoSession, HmacSession(1), Password>>
    /\ sessions = last.entry
    /\ Len(calls) = 1
    /\ calls[1].sessions = <<NoSession, NoSession, NoSession>>
    /\ last.result = OkNone

\* C23 as stated: once execute_with_nullauth_session has started its
\* session, the call does not return without a flush of that session having
\* been attempted, also when setting the session attributes fails.
C23_AsClaimed ==
    last.op = "execute_with_nullauth_session" =>
        /\ last.invoked =>
              FlushCallsOf(calls, last.auth_session[2]) # {}
        /\ (~last.invoked /\ last.out[1] = "Some") =>
              FlushCallsOf(calls, last.out[2]) # {}

\* C26: the channel is present in every state before the last step of Drop,
\* so every step that makes a native call, the flush and close calls of the
\* sweep included, starts with the channel present.
C26_ChannelPresent ==
    /\ [](pc # "closed" => esys_context = "Some")
    /\ [][(calls' # <<>> /\ calls' # calls) => esys_context = "Some"]_vars

C26_Witness ==
    /\ pc = "close"
    /\ esys_context = "Some"
    /\ CallsNamed(calls, "Esys_FlushContext") # {}
    /\ CallsNamed(calls, "Esys_TR_Close") # {}
    /\ FailedCalls(calls) # {}

====
